---- MODULE Spec2Model ----
(***************************************************************************)
(* The automation run engine: the Run entity (run.entity.ts), the action   *)
(* dispatcher RunActionUseCase and the orchestrator RunAutomationUseCase.  *)
(*                                                                         *)
(* Conventions.                                                            *)
(*  - A dotted action path ("s.p.b") is the sequence of its dot-free       *)
(*    segments (<<"s","p","b">>): split('.') reads the segments, join('.') *)
(*    and + '.' + concatenate them.  Schema names are dot-free.            *)
(*  - A message is a sequence of text fragments; template strings          *)
(*    concatenate fragments.  The empty sequence means "nothing thrown".   *)
(*  - A JavaScript property is Absent (no key), Undef (key holding         *)
(*    undefined) or a record; JSON.parse(JSON.stringify(x)) drops the keys *)
(*    that hold undefined.                                                 *)
(*  - new Date() reads the logical clock `now`.                            *)
(***************************************************************************)
EXTENDS Integers, Sequences, FiniteSets, TLC

(***************************************************************************)
(* Bounds                                                                  *)
(***************************************************************************)
\* longest array an action returns (fan-out width)
MaxItems == 2
\* top-level orchestrator invocations on one run (first play + replays)
MaxInvocations == 2
\* number of Run methods called in a row in the entity-level specification
MaxOps == 3

(***************************************************************************)
(* JavaScript values                                                       *)
(***************************************************************************)
Absent == [k |-> "absent"]
Undef == [k |-> "undefined"]
NoDate == 0

\* 'key' in object
HasKey(v) == v.k # "absent"
\* v !== undefined
IsDefined(v) == v.k \notin {"absent", "undefined"}
\* !!v : every defined value here is an object or an array, both truthy
Truthy(v) == IsDefined(v)

Obj(v) == [k |-> "obj", v |-> v]
Arr(items) == [k |-> "arr", items |-> items]
Err(message) == [k |-> "err", message |-> message]
FilterResult(b) == [k |-> "obj", canContinue |-> b]
FilterThrown(text) == [k |-> "obj", canContinue |-> FALSE, error |-> text]
FilledInput == [k |-> "obj", v |-> "input"]

\* 'canContinue' in data
HasCanContinue(data) == "canContinue" \in DOMAIN data

\* first index of list whose element satisfies P, 0 when there is none
\* (Array.prototype.findIndex / find)
FindIndex(list, P(_)) ==
  LET S == {i \in 1..Len(list) : P(list[i])}
  IN IF S = {} THEN 0 ELSE CHOOSE i \in S : \A j \in S : i <= j

\* variant: the element before is the one taken out
RemoveIndex_Before(list, i) ==
  SubSeq(list, 1, i - 2) \o SubSeq(list, i, Len(list))

RemoveIndex(list, i) == SubSeq(list, 1, i - 1) \o SubSeq(list, i + 1, Len(list))

(***************************************************************************)
(* Steps                                                                   *)
(***************************************************************************)
StepSchema(schema) ==
  [name |-> schema.name, service |-> schema.service, action |-> schema.action]

\* steps[0]: the trigger's schema has no name (example/automation/admin.ts)
TriggerStep ==
  [type |-> "trigger", schema |-> [service |-> "http", event |-> "post"],
   input |-> Obj("request"), output |-> Obj("trigger")]

NewActionStep(schema, input, t) ==
  [type |-> "action", startedAt |-> t, finishedAt |-> NoDate,
   schema |-> StepSchema(schema), input |-> input,
   output |-> Undef, error |-> Undef]

NewPathsStep(schema, paths, t) ==
  [type |-> "paths", startedAt |-> t, finishedAt |-> NoDate,
   schema |-> StepSchema(schema), paths |-> paths]

NewPathStep(path, input, output) ==
  [schema |-> [name |-> path.name], input |-> input, output |-> output,
   actions |-> <<>>]

\* ('input' in step || 'paths' in step) && step.schema.name === actionName
IsNamed(step, actionName) ==
  /\ "input" \in DOMAIN step \/ "paths" \in DOMAIN step
  /\ "name" \in DOMAIN step.schema
  /\ step.schema.name = actionName

\* JSON.parse(JSON.stringify(steps)): keys holding undefined are dropped
DropUndef(v) == IF v = Undef THEN Absent ELSE v

RECURSIVE JSONSteps(_)
JSONSteps(steps) ==
  [i \in 1..Len(steps) |->
     LET step == steps[i] IN
     IF step.type = "action"
       THEN [step EXCEPT !.output = DropUndef(@), !.error = DropUndef(@)]
     ELSE IF step.type = "paths"
       THEN [step EXCEPT !.paths =
               [j \in 1..Len(step.paths) |->
                  [step.paths[j] EXCEPT !.actions = JSONSteps(@)]]]
     ELSE step]

(***************************************************************************)
(* Run                                                                     *)
(***************************************************************************)
NewRun(automation_id, id, t) ==
  [automation_id |-> automation_id, steps |-> <<TriggerStep>>,
   status |-> "playing", id |-> id, createdAt |-> t, updatedAt |-> t,
   toReplay |-> FALSE]

\* the outcome of a Run method: the run afterwards and the message of the
\* Error it threw (<<>> when it returned)
Ok(run) == [run |-> run, threw |-> <<>>]
Throw(run, msg) == [run |-> run, threw |-> msg]

Found(loc) == [kind |-> "found", loc |-> loc]
NotFound == [kind |-> "none", loc |-> <<>>]
LookupThrown(msg) == [kind |-> "throw", loc |-> <<>>, msg |-> msg]

\* a step is located by <<i>> (this.steps[i]) or <<i, j, n>>
\* (this.steps[i].paths[j].actions[n])
StepAt(steps, loc) ==
  IF Len(loc) = 1 THEN steps[loc[1]]
  ELSE steps[loc[1]].paths[loc[2]].actions[loc[3]]

SetStepAt(steps, loc, step) ==
  IF Len(loc) = 1 THEN [steps EXCEPT ![loc[1]] = step]
  ELSE [steps EXCEPT ![loc[1]].paths[loc[2]].actions[loc[3]] = step]

\* within = <<>> searches this.steps (the `steps` argument left out),
\* within = <<i, j>> searches this.steps[i].paths[j].actions
\* const x = e; ... : the value of the body with x bound to the value of e,
\* which is computed once, written Only({body : x \in {e}})
Only(S) == CHOOSE x \in S : TRUE

RECURSIVE getActionOrPathsStep(_, _, _)
getActionOrPathsStep(steps, pathSegments, within) ==
  LET list == IF within = <<>> THEN steps
              ELSE steps[within[1]].paths[within[2]].actions
  IN
  IF Len(pathSegments) < 2 THEN
    LET idx == FindIndex(list, LAMBDA s : IsNamed(s, pathSegments[1]))
    IN IF idx = 0 THEN NotFound ELSE Found(within \o <<idx>>)
  ELSE
    LET actionName == pathSegments[1]
        pathName == pathSegments[2]
        segments == SubSeq(pathSegments, 3, Len(pathSegments))
    IN
    Only({
      IF r.kind # "found" THEN NotFound
      ELSE
        LET step == StepAt(steps, r.loc) IN
        IF step.type = "paths" THEN
          Only({
            IF j = 0 THEN LookupThrown(<<"Path step not found">>)
            ELSE IF Len(segments) > 0
              THEN getActionOrPathsStep(steps, segments, <<r.loc[1], j>>)
            ELSE r
            : j \in {FindIndex(step.paths,
                               LAMBDA p : p.schema.name = pathName)}})
        ELSE NotFound
      : r \in {getActionOrPathsStep(steps, <<actionName>>, <<>>)}})

getActionOrPathsStepOrThrow(steps, pathSegments) ==
  LET r == getActionOrPathsStep(steps, pathSegments, <<>>)
  IN IF r.kind = "none"
       THEN LookupThrown(<<"Action step ">> \o pathSegments \o <<" not found">>)
     ELSE r

replay(run) == [run EXCEPT !.toReplay = TRUE]

replaying(run, t) ==
  [run EXCEPT !.status = "playing", !.updatedAt = t, !.toReplay = FALSE]

\* variant: the copy keeps the id of the run
clone_SameId(run, newId) ==
  [run EXCEPT !.steps = JSONSteps(@), !.toReplay = FALSE]

clone(run, newId) ==
  [run EXCEPT !.steps = JSONSteps(@), !.id = newId, !.toReplay = FALSE]

\* variant: every step is pushed onto the top-level steps
startActionStep_TopLevel(run, pathSegments, schema, input, t) ==
  Ok([run EXCEPT !.steps = Append(@, NewActionStep(schema, input, t)),
                 !.updatedAt = t])

RECURSIVE startActionStep(_, _, _, _, _)
startActionStep(run, pathSegments, schema, input, t) ==
  IF Len(pathSegments) < 2 THEN
    Ok([run EXCEPT !.steps = Append(@, NewActionStep(schema, input, t)),
                   !.updatedAt = t])
  ELSE
    LET actionName == pathSegments[1]
        pathName == pathSegments[2]
        segments == SubSeq(pathSegments, 3, Len(pathSegments))
        r == getActionOrPathsStepOrThrow(run.steps, <<actionName>>)
    IN
    IF r.kind = "throw" THEN Throw(run, r.msg)
    ELSE
      LET step == StepAt(run.steps, r.loc) IN
      IF step.type = "paths" THEN
        LET j == FindIndex(step.paths, LAMBDA p : p.schema.name = pathName)
        IN IF j = 0 THEN Throw(run, <<"Path step not found">>)
           ELSE IF Len(segments) < 2 THEN
             Ok([run EXCEPT
                   !.steps[r.loc[1]].paths[j].actions =
                      Append(@, NewActionStep(schema, input, t)),
                   !.updatedAt = t])
           ELSE startActionStep(run, segments, schema, input, t)
      ELSE Throw(run, <<"Action step not found">>)

startActionPathsStep(run, schema, paths, t) ==
  [run EXCEPT !.steps = Append(@, NewPathsStep(schema, paths, t)),
              !.updatedAt = t]

isStepExecuted(run, pathSegments) ==
  LET r == getActionOrPathsStep(run.steps, pathSegments, <<>>) IN
  IF r.kind # "found" THEN FALSE
  ELSE LET step == StepAt(run.steps, r.loc) IN
       IF step.type = "action" /\ HasKey(step.output) THEN Truthy(step.output)
       ELSE IF step.type = "action" /\ HasKey(step.error) THEN Truthy(step.error)
       ELSE TRUE

\* variant: only the step's own error is looked at
isStepExecutedWithSuccess_OwnError(run, pathSegments) ==
  LET r == getActionOrPathsStep(run.steps, pathSegments, <<>>) IN
  IF r.kind # "found" THEN FALSE
  ELSE LET step == StepAt(run.steps, r.loc) IN
       IF step.type = "action" /\ HasKey(step.error) THEN ~Truthy(step.error)
       ELSE IF step.type = "action" /\ HasKey(step.output) THEN Truthy(step.output)
       ELSE TRUE

\* variant: no step counts as executed with success
isStepExecutedWithSuccess_Never(run, pathSegments) == FALSE

isStepExecutedWithSuccess(run, pathSegments) ==
  LET r == getActionOrPathsStep(run.steps, pathSegments, <<>>) IN
  IF r.kind # "found" THEN FALSE
  ELSE LET step == StepAt(run.steps, r.loc) IN
       IF step.type = "action" /\ HasKey(step.error) THEN ~Truthy(step.error)
       ELSE IF step.type = "action" /\ HasKey(step.output) THEN Truthy(step.output)
       ELSE IF step.type = "paths" THEN
         ~(\E j \in 1..Len(step.paths) :
             \E n \in 1..Len(step.paths[j].actions) :
               LET a == step.paths[j].actions[n]
               IN a.type = "action" /\ Truthy(a.error))
       ELSE TRUE

RECURSIVE removeStep(_, _, _)
removeStep(run, pathSegments, t) ==
  IF Len(pathSegments) < 2 THEN
    LET actionName == pathSegments[1]
        S == {i \in 1..Len(run.steps) :
                i # 1 /\ IsNamed(run.steps[i], actionName)}
    IN IF S = {} THEN run
       ELSE LET stepIndex == CHOOSE i \in S : \A j \in S : i <= j
            IN [run EXCEPT !.steps = RemoveIndex(@, stepIndex),
                           !.updatedAt = t]
  ELSE
    LET actionName == pathSegments[1]
        pathName == pathSegments[2]
        segments == SubSeq(pathSegments, 3, Len(pathSegments))
        r == getActionOrPathsStep(run.steps, <<actionName>>, <<>>)
    IN
    IF r.kind = "found" /\ StepAt(run.steps, r.loc).type = "paths" THEN
      LET step == StepAt(run.steps, r.loc)
          j == FindIndex(step.paths, LAMBDA p : p.schema.name = pathName)
      IN IF j = 0 THEN run
         ELSE IF Len(segments) < 2 THEN
           LET actionIndex ==
                 IF segments = <<>> THEN 0
                 ELSE FindIndex(step.paths[j].actions,
                                LAMBDA a : a.schema.name = segments[1])
           IN IF actionIndex = 0 THEN run
              ELSE [run EXCEPT
                      !.steps[r.loc[1]].paths[j].actions =
                         RemoveIndex(@, actionIndex),
                      !.updatedAt = t]
         ELSE removeStep(run, segments, t)
    ELSE run

\* if ('output' in step) step.output = v
WithOutput(step, v) ==
  IF step.type = "action" /\ HasKey(step.output)
    THEN [step EXCEPT !.output = v] ELSE step

\* if ('error' in step) step.error = e
WithError(step, e) ==
  IF step.type = "action" /\ HasKey(step.error)
    THEN [step EXCEPT !.error = e] ELSE step

successActionStep(run, pathSegments, output, t) ==
  Only({
    IF r.kind = "throw" THEN Throw(run, r.msg)
    ELSE LET step == StepAt(run.steps, r.loc) IN
         Ok([run EXCEPT
               !.steps = SetStepAt(@, r.loc,
                           [WithOutput(step, output) EXCEPT !.finishedAt = t]),
               !.updatedAt = t])
    : r \in {getActionOrPathsStepOrThrow(run.steps, pathSegments)}})

\* variant: the status is not looked at
filterActionStep_Unguarded(run, pathSegments, result, t) ==
  LET r == getActionOrPathsStepOrThrow(run.steps, pathSegments) IN
  IF r.kind = "throw" THEN Throw(run, r.msg)
  ELSE LET step == StepAt(run.steps, r.loc) IN
       Ok([run EXCEPT
             !.steps = SetStepAt(@, r.loc,
                         [WithOutput(step, result) EXCEPT !.finishedAt = t]),
             !.updatedAt = t,
             !.status = "filtered"])

filterActionStep(run, pathSegments, result, t) ==
  IF run.status = "playing" THEN
    LET r == getActionOrPathsStepOrThrow(run.steps, pathSegments) IN
    IF r.kind = "throw" THEN Throw(run, r.msg)
    ELSE LET step == StepAt(run.steps, r.loc) IN
         Ok([run EXCEPT
               !.steps = SetStepAt(@, r.loc,
                           [WithOutput(step, result) EXCEPT !.finishedAt = t]),
               !.updatedAt = t,
               !.status = "filtered"])
  ELSE Ok(run)

\* variant: the status is not looked at
stopActionStep_Unguarded(run, pathSegments, error, t) ==
  LET r == getActionOrPathsStep(run.steps, pathSegments, <<>>) IN
  IF r.kind = "throw" THEN Throw(run, r.msg)
  ELSE
    LET steps1 ==
          IF r.kind = "found"
            THEN SetStepAt(run.steps, r.loc,
                   [WithError(StepAt(run.steps, r.loc), error)
                      EXCEPT !.finishedAt = t])
          ELSE run.steps
    IN Ok([run EXCEPT !.steps = steps1, !.updatedAt = t,
                      !.status = "stopped"])

stopActionStep(run, pathSegments, error, t) ==
  IF run.status = "playing" \/ run.status = "filtered" THEN
    LET r == getActionOrPathsStep(run.steps, pathSegments, <<>>) IN
    IF r.kind = "throw" THEN Throw(run, r.msg)
    ELSE
      LET steps1 ==
            IF r.kind = "found"
              THEN SetStepAt(run.steps, r.loc,
                     [WithError(StepAt(run.steps, r.loc), error)
                        EXCEPT !.finishedAt = t])
            ELSE run.steps
      IN Ok([run EXCEPT !.steps = steps1, !.updatedAt = t,
                        !.status = "stopped"])
  ELSE Ok(run)

\* variant: the status is left as it is
runSucceed_Forgotten(run) == run

runSucceed(run) ==
  IF run.status = "playing" THEN [run EXCEPT !.status = "success"] ELSE run

\* {} ; an object built key by key is the sequence of its entries, in
\* insertion order
EmptyObject == [k |-> "obj", entries |-> <<>>]

\* acc[key] = value
Put(acc, key, value) ==
  IF \E i \in DOMAIN acc.entries : acc.entries[i].name = key
    THEN [acc EXCEPT !.entries =
            [i \in DOMAIN @ |-> IF @[i].name = key
                                  THEN [name |-> key, value |-> value]
                                  ELSE @[i]]]
  ELSE [acc EXCEPT !.entries = Append(@, [name |-> key, value |-> value])]

\* variant: an unset output is copied as it is
OutputOrEmpty_Unset(step) == step.output

\* step.output ?? {}
OutputOrEmpty(step) ==
  IF IsDefined(step.output) THEN step.output ELSE EmptyObject

\* buildOutput of getStepsOutput: a reduce over the steps; a paths step adds
\* a reduce over its paths, an action step (one whose schema has 'action')
\* its output
RECURSIVE buildOutput(_)
buildOutput(steps) ==
  IF steps = <<>> THEN EmptyObject
  ELSE
    LET acc == buildOutput(SubSeq(steps, 1, Len(steps) - 1))
        step == steps[Len(steps)]
        PathsOutput[j \in 0..(IF "paths" \in DOMAIN step
                                THEN Len(step.paths) ELSE 0)] ==
          IF j = 0 THEN EmptyObject
          ELSE Put(PathsOutput[j - 1], step.paths[j].schema.name,
                   buildOutput(step.paths[j].actions))
    IN IF "paths" \in DOMAIN step
         THEN Put(acc, step.schema.name, PathsOutput[Len(step.paths)])
       ELSE IF "action" \in DOMAIN step.schema
         THEN Put(acc, step.schema.name, OutputOrEmpty(step))
       ELSE acc

\* { ...output, trigger: trigger.output }
getStepsOutput(run) ==
  Put(buildOutput(Tail(run.steps)), "trigger", run.steps[1].output)

\* getError of getErrorMessage: the first error a for-loop over the steps
\* returns; a paths step returns the result of its flattened actions
RECURSIVE getError(_)
getError(steps) ==
  IF steps = <<>> THEN Undef
  ELSE LET step == Head(steps) IN
       IF step.type = "paths" THEN
         LET FlatMap[j \in 0..Len(step.paths)] ==
               IF j = 0 THEN <<>>
               ELSE FlatMap[j - 1] \o step.paths[j].actions
         IN getError(FlatMap[Len(step.paths)])
       ELSE IF step.type = "action" /\ IsDefined(step.error) THEN step.error
       ELSE getError(Tail(steps))

\* <<>> stands for undefined
getErrorMessage(run) ==
  LET error == getError(Tail(run.steps))
  IN IF Truthy(error) THEN error.message ELSE <<>>

(***************************************************************************)
(* State                                                                   *)
(***************************************************************************)
VARIABLES
  run,        \* the Run object the caller holds
  now,        \* logical clock read by new Date()
  lastOp,     \* the last Run method called from outside, with the run before
  ops,        \* number of Run methods called from outside
  automation, \* the Automation being played
  stack,      \* call stack of the orchestrator, innermost frame last
  ret,        \* value returned or Error thrown to the frame on top
  stored,     \* run storage: the runs passed to update / create, by id
  updates,    \* number of run-storage update calls
  created,    \* ids of the runs passed to run-storage create, in call order
  alerts,     \* messages passed to sendAlertEmail, in call order
  nextId,     \* next value of crypto.randomUUID()
  invocation, \* number of top-level execute calls started
  log,        \* dispatcher and orchestrator events, in order
  prev,       \* the run as the previous top-level invocation left it
  faults      \* which calls of the collaborators throw

entityVars == <<run, now, lastOp, ops>>
orchVars == <<automation, stack, ret, stored, updates, created, alerts,
              nextId, invocation, log, prev, faults>>
vars == <<run, now, lastOp, ops, automation, stack, ret, stored, updates,
          created, alerts, nextId, invocation, log, prev, faults>>

\* the collaborators never throw; otherwise: the update-th call of run-storage
\* update throws, every create throws, every sendAlertEmail throws
NoFaults == [update |-> 0, create |-> FALSE, alert |-> FALSE]

NoOp == [op |-> "none", path |-> <<>>, threw |-> <<>>]
NoRet == [kind |-> "none"]

(***************************************************************************)
(* Entity-level specification: Run methods called in any order             *)
(***************************************************************************)
CodeSchema(name) ==
  [name |-> name, service |-> "code", action |-> "run-typescript"]
SplitSchema(name, params) ==
  [name |-> name, service |-> "filter", action |-> "split-into-paths",
   params |-> params]

\* paths the entity-level callers address: top-level names, names inside
\* the paths of "s", a path that "s" does not have, a name inside a branch
\* of a branch, and the pseudo-step
OpPaths ==
  {<<"a">>, <<"s">>, <<"s", "p", "b">>, <<"s", "q", "a">>,
   <<"s", "z", "b">>, <<"s", "p", "t", "q", "a">>, <<"execution">>}

\* names of the split-into-paths actions the entity-level callers start
OpSplits == {"s", "t"}

OpPathSteps ==
  <<NewPathStep([name |-> "p"], FilledInput, FilterResult(TRUE)),
    NewPathStep([name |-> "q"], FilledInput, FilterResult(FALSE))>>

Last(seq) == seq[Len(seq)]

\* runs the entity-level specification starts from: a fresh run, and a run
\* with a finished action, a paths step and an unfinished action in a path
SeedBranching ==
  LET r1 == startActionStep(NewRun(1, 1, 1), <<"a">>, CodeSchema("a"),
                            FilledInput, 2).run
      r2 == successActionStep(r1, <<"a">>, Obj("d1"), 3).run
      r3 == startActionPathsStep(r2, SplitSchema("s", <<>>), OpPathSteps, 4)
  IN startActionStep(r3, <<"s", "p", "b">>, CodeSchema("b"),
                     FilledInput, 5).run

SeedRuns == {NewRun(1, 1, 1), SeedBranching}
SeedTime == 6

IdleOrch ==
  /\ automation = [id |-> 1, actions |-> <<>>]
  /\ stack = <<>>
  /\ ret = NoRet
  /\ stored = [id \in {run.id} |-> run]
  /\ updates = 0
  /\ created = <<>>
  /\ alerts = <<>>
  /\ nextId = 2
  /\ invocation = 0
  /\ log = <<>>
  /\ prev = run
  /\ faults = NoFaults

InitRun ==
  /\ run \in SeedRuns
  /\ now = SeedTime
  /\ lastOp = NoOp
  /\ ops = 0
  /\ IdleOrch

\* one Run method called from outside: the run it leaves, the Error it threw
Called(op, path, result) ==
  /\ ops < MaxOps
  /\ ops' = ops + 1
  /\ now' = now + 1
  /\ run' = result.run
  /\ lastOp' = [op |-> op, path |-> path, threw |-> result.threw,
                before |-> run]
  /\ UNCHANGED orchVars

CallStartActionStep ==
  \E path \in OpPaths :
    Called("startActionStep", path,
           startActionStep(run, path, CodeSchema(Last(path)), FilledInput, now))

CallStartActionPathsStep ==
  \E name \in OpSplits :
    Called("startActionPathsStep", <<name>>,
           Ok(startActionPathsStep(run, SplitSchema(name, <<>>), OpPathSteps,
                                   now)))

CallRemoveStep ==
  \E path \in OpPaths :
    Called("removeStep", path, Ok(removeStep(run, path, now)))

CallSuccessActionStep ==
  \E path \in OpPaths :
    Called("successActionStep", path,
           successActionStep(run, path, Obj("d2"), now))

CallFilterActionStep ==
  \E path \in OpPaths :
    Called("filterActionStep", path,
           filterActionStep(run, path, FilterResult(FALSE), now))

CallStopActionStep ==
  \E path \in OpPaths :
    Called("stopActionStep", path,
           stopActionStep(run, path, Err(<<"boom">>), now))

CallRunSucceed == Called("runSucceed", <<>>, Ok(runSucceed(run)))

CallReplay == Called("replay", <<>>, Ok(replay(run)))

CallReplaying == Called("replaying", <<>>, Ok(replaying(run, now)))

NextRun ==
  \/ CallStartActionStep
  \/ CallStartActionPathsStep
  \/ CallRemoveStep
  \/ CallSuccessActionStep
  \/ CallFilterActionStep
  \/ CallStopActionStep
  \/ CallRunSucceed
  \/ CallReplay
  \/ CallReplaying

SpecRun == InitRun /\ [][NextRun]_vars

(***************************************************************************)
(* Automations                                                             *)
(***************************************************************************)
\* longest flat automation played
MaxActions == 3

NamePool == <<"a", "b", "c", "d", "e">>

\* accounts the App has a connection for (app.findConnection)
AppConnections == {"main"}

CodeAction(name) ==
  [name |-> name, service |-> "code", action |-> "run-typescript",
   params |-> <<>>]
IntegrationAction(name, account) ==
  [name |-> name, service |-> "airtable", action |-> "create-record",
   account |-> account, params |-> <<>>]
OnlyContinueIf(name) ==
  [name |-> name, service |-> "filter", action |-> "only-continue-if",
   params |-> <<>>]
SplitIntoPaths(name, params) ==
  [name |-> name, service |-> "filter", action |-> "split-into-paths",
   params |-> params]
PathSchema(name, actions) == [name |-> name, actions |-> actions]

IsSplit(action) ==
  action.service = "filter" /\ action.action = "split-into-paths"

\* n code actions a, b, c, ...
FlatActions(n) == [i \in 1..n |-> CodeAction(NamePool[i])]

FlatAutomation(n) == [id |-> n + 1, actions |-> FlatActions(n)]

\* an integration action whose account has no connection, after one that has
Unconnected ==
  [id |-> 10,
   actions |-> <<IntegrationAction("a", "main"),
                 IntegrationAction("b", "gone")>>]

\* a filter followed by an action
Filtering ==
  [id |-> 11,
   actions |-> <<OnlyContinueIf("f"), IntegrationAction("a", "main")>>]

\* two branch paths, then one more top-level action
Branching ==
  [id |-> 12,
   actions |->
     <<SplitIntoPaths("s",
         <<PathSchema("p", <<IntegrationAction("b", "main"),
                             IntegrationAction("c", "main")>>),
           PathSchema("q", <<IntegrationAction("d", "main")>>)>>),
       IntegrationAction("e", "main")>>]

\* a top-level action and an action of a path with the same name
SameName ==
  [id |-> 13,
   actions |->
     <<IntegrationAction("b", "main"),
       SplitIntoPaths("s",
         <<PathSchema("p", <<IntegrationAction("b", "main")>>)>>)>>]

\* a split-into-paths inside a branch path, and a sibling path
Nested ==
  [id |-> 14,
   actions |->
     <<SplitIntoPaths("s",
         <<PathSchema("p",
             <<SplitIntoPaths("t",
                 <<PathSchema("r", <<IntegrationAction("c", "main")>>)>>)>>),
           PathSchema("q", <<IntegrationAction("d", "main")>>)>>)>>]

\* an action without connection inside a path, then a second split
Disconnected ==
  [id |-> 15,
   actions |->
     <<SplitIntoPaths("s",
         <<PathSchema("p", <<IntegrationAction("x", "gone")>>)>>),
       SplitIntoPaths("u",
         <<PathSchema("q", <<IntegrationAction("d", "main")>>)>>)>>]

\* a path that starts with an only-continue-if
PathFiltered ==
  [id |-> 17,
   actions |->
     <<SplitIntoPaths("s",
         <<PathSchema("p", <<OnlyContinueIf("f"),
                             IntegrationAction("b", "main")>>)>>),
       IntegrationAction("e", "main")>>]

Automations ==
  {FlatAutomation(n) : n \in 0..MaxActions}
  \cup {Unconnected, Filtering, Branching, SameName, Nested, Disconnected,
          PathFiltered}

(***************************************************************************)
(* Collaborators                                                           *)
(***************************************************************************)
\* runRepository.update(run) / create(run)
Stored(store, r) ==
  [id \in DOMAIN store \cup {r.id} |-> IF id = r.id THEN r ELSE store[id]]

\* messages of the Errors the services throw or return
ServiceMessages == {<<"boom">>}

Item(i) == [k |-> "obj", item |-> i]
\* { ...data[i], index: i + 1 }
WithIndex(item, index) == [k |-> "obj", item |-> item.item, index |-> index]
ItemArray(n) == Arr([i \in 1..n |-> Item(i)])

Data(value) == [data |-> value, error |-> Undef]
Failure(message) == [data |-> Undef, error |-> Err(message)]

\* what the service behind an action can answer once it is invoked
ServiceResults(action) ==
  IF action.service = "code"
    THEN {Data(Obj("d"))} \cup {Data(ItemArray(n)) : n \in 0..MaxItems}
         \cup {Failure(m) : m \in ServiceMessages}
  ELSE IF action.service = "filter"
    THEN {Data(FilterResult(b)) : b \in BOOLEAN}
         \cup {Failure(m) : m \in ServiceMessages}
  ELSE {Data(Obj("d"))} \cup {Failure(m) : m \in ServiceMessages}

(***************************************************************************)
(* Call stack                                                              *)
(***************************************************************************)
Top == stack[Len(stack)]
Popped == SubSeq(stack, 1, Len(stack) - 1)
Returned(value) == [kind |-> "return", value |-> value]
\* a returned boolean
Bool(b) == [k |-> "bool", b |-> b]
Raised(msg) == [kind |-> "throw", msg |-> msg]
Void == [k |-> "undefined"]

ExecuteFrame(pathName) ==
  [fn |-> "execute", pathName |-> pathName, pc |-> "start", i |-> 1,
   actions |-> <<>>]
RunActionFrame(action, pathName) ==
  [fn |-> "runAction", action |-> action, pathName |-> pathName,
   actionPath |-> pathName \o <<action.name>>, pc |-> "result",
   data |-> Undef]
DispatchFrame(action, actionPath) ==
  [fn |-> "dispatch", action |-> action, actionPath |-> actionPath,
   pc |-> "start"]

Event(ev, path, value) ==
  [ev |-> ev, path |-> path, inv |-> invocation, value |-> value]

Init ==
  /\ automation \in Automations
  /\ run = NewRun(automation.id, 1, 1)
  /\ now = 2
  /\ lastOp = NoOp
  /\ ops = 0
  /\ stack = <<>>
  /\ ret = NoRet
  /\ stored = [id \in {1} |-> NewRun(automation.id, 1, 1)]
  /\ updates = 0
  /\ created = <<>>
  /\ alerts = <<>>
  /\ nextId = 2
  /\ invocation = 0
  /\ log = <<>>
  /\ prev = run
  /\ faults = NoFaults

(***************************************************************************)
(* Effects on the run and the collaborators, threaded through a record     *)
(***************************************************************************)
World ==
  [run |-> run, stored |-> stored, updates |-> updates, created |-> created,
   alerts |-> alerts, nextId |-> nextId, log |-> log]

Commit(w) ==
  /\ run' = w.run
  /\ stored' = w.stored
  /\ updates' = w.updates
  /\ created' = w.created
  /\ alerts' = w.alerts
  /\ nextId' = w.nextId
  /\ log' = w.log

\* the event is added to the log
Logged(w, ev, path, value) ==
  [w EXCEPT !.log = Append(@, Event(ev, path, value))]

Done(w) == [w |-> w, threw |-> <<>>]
Failed(w, msg) == [w |-> w, threw |-> msg]

\* the effect g after the effect e, unless e threw
Then(e, g(_)) == Only({IF x.threw # <<>> THEN x ELSE g(x.w) : x \in {e}})

\* the messages of the Errors the collaborators throw
StorageDown == <<"run storage unavailable">>
MailDown == <<"alert email not sent">>

\* await this.runRepository.update(run): the call is counted, then it
\* persists the run or throws
update(w) ==
  Only({IF faults.update = v.updates + 1
          THEN Failed([v EXCEPT !.updates = @ + 1], StorageDown)
          ELSE Done([v EXCEPT !.stored = Stored(@, v.run), !.updates = @ + 1])
        : v \in {w}})

\* await this.runRepository.create(newRun)
create(w, newRun) ==
  IF faults.create THEN Failed(w, StorageDown)
  ELSE Done(Logged([w EXCEPT !.stored = Stored(@, newRun),
                             !.created = Append(@, newRun.id)],
                   "create", <<>>, [k |-> "id", id |-> newRun.id]))

\* await this.automationRepository.sendAlertEmail(run, automation, message):
\* the call is recorded, then the email is sent or the call throws
sendAlertEmail(w, alert) ==
  LET called == Logged([w EXCEPT !.alerts = Append(@, alert)],
                       "alert", alert.path, Void)
  IN IF faults.alert THEN Failed(called, MailDown) ELSE Done(called)

\* `action "${actionPath}" stopped with error: ${error.message}`
ActionAlert(actionPath, message) ==
  [kind |-> "action", path |-> actionPath, message |-> message]
\* `automation "${automation.schema.name}" failed: ${error.message}`
AutomationAlert(message) ==
  [kind |-> "automation", path |-> <<>>, message |-> message]

stop(w, actionPath, error, t) ==
  LET r == stopActionStep(w.run, actionPath, error, t) IN
  IF r.threw # <<>> THEN Failed(w, r.threw)
  ELSE Then(update([w EXCEPT !.run = r.run]),
            LAMBDA v : sendAlertEmail(v, ActionAlert(actionPath,
                                                     error.message)))

\* variant: a filtered action alerts as a stopped one does
filter_Alerting(w, actionPath, data, t) ==
  LET r == filterActionStep(w.run, actionPath, data, t) IN
  IF r.threw # <<>> THEN Failed(w, r.threw)
  ELSE Then(update(Logged([w EXCEPT !.run = r.run], "filter", actionPath,
                          Void)),
            LAMBDA v : sendAlertEmail(v, ActionAlert(actionPath,
                                                     <<"filtered">>)))

filter(w, actionPath, data, t) ==
  LET r == filterActionStep(w.run, actionPath, data, t) IN
  IF r.threw # <<>> THEN Failed(w, r.threw)
  ELSE update(Logged([w EXCEPT !.run = r.run], "filter", actionPath, Void))

(***************************************************************************)
(* Automation.findPath                                                     *)
(***************************************************************************)
NoPath == [found |-> FALSE, actions |-> <<>>]

RECURSIVE findPathIn(_, _)
findPathIn(actions, pathName) ==
  IF Len(pathName) < 2 THEN NoPath
  ELSE
    LET i == FindIndex(actions, LAMBDA a : a.name = pathName[1]) IN
    IF i = 0 THEN NoPath
    ELSE IF ~IsSplit(actions[i]) THEN NoPath
    ELSE
      LET params == actions[i].params
          j == FindIndex(params, LAMBDA q : q.name = pathName[2])
      IN IF j = 0 THEN NoPath
         ELSE IF Len(pathName) = 2
           THEN [found |-> TRUE, actions |-> params[j].actions]
         ELSE findPathIn(params[j].actions,
                         SubSeq(pathName, 3, Len(pathName)))

findPath(a, pathName) == findPathIn(a.actions, pathName)

(***************************************************************************)
(* RunActionUseCase.execute (the dispatcher)                               *)
(***************************************************************************)
ReplaceTop(frame) == [stack EXCEPT ![Len(stack)] = frame]

OnTop(fn, pc) == stack # <<>> /\ Top.fn = fn /\ Top.pc = pc

\* variant: the Error leaves the dispatcher
DispatchCatch_Rethrow(msg) == Raised(msg)

\* the catch of the dispatcher: return { error: { message: error.message } }
DispatchCatch(msg) == Returned(Failure(msg))

\* every action but split-into-paths: the connection lookup of an
\* integration action, then fillInputData (startActionStep + update)
DispatchStart ==
  /\ OnTop("dispatch", "start")
  /\ ~IsSplit(Top.action)
  /\ LET action == Top.action
         noConnection == /\ "account" \in DOMAIN action
                         /\ action.account \notin AppConnections
         r == startActionStep(run, Top.actionPath, action, FilledInput, now)
         w == Logged(World, "dispatch", Top.actionPath, Void)
         noAccount == <<"Connection not found for account ", action.account>>
     IN IF noConnection THEN
          /\ Commit(Logged(w, "result", Top.actionPath, Failure(noAccount)))
          /\ stack' = Popped
          /\ ret' = DispatchCatch(noAccount)
        ELSE IF r.threw # <<>> THEN
          /\ Commit(Logged(w, "result", Top.actionPath, Failure(r.threw)))
          /\ stack' = Popped
          /\ ret' = DispatchCatch(r.threw)
        ELSE
          LET u == update([w EXCEPT !.run = r.run]) IN
          IF u.threw # <<>> THEN
            /\ Commit(Logged(u.w, "result", Top.actionPath, Failure(u.threw)))
            /\ stack' = Popped
            /\ ret' = DispatchCatch(u.threw)
          ELSE
            /\ Commit(Logged(u.w, "service", Top.actionPath, Void))
            /\ stack' = ReplaceTop([Top EXCEPT !.pc = "service"])
            /\ ret' = NoRet
  /\ now' = now + 1
  /\ UNCHANGED <<lastOp, ops, automation, faults, invocation, prev>>

\* the awaited service answers: data, an array, or an Error turned into
\* { error: { message } } by the catch
DispatchService ==
  /\ OnTop("dispatch", "service")
  /\ \E result \in ServiceResults(Top.action) :
       /\ stack' = Popped
       /\ ret' = Returned(result)
       /\ Commit(Logged(World, "result", Top.actionPath, result))
  /\ UNCHANGED <<now, lastOp, ops, automation, faults, invocation, prev>>

\* what evaluating one path's filter gives
PathFilterOutcomes ==
  {FilterResult(TRUE), FilterResult(FALSE)}
  \cup {FilterThrown(<<"Error: ">> \o m) : m \in ServiceMessages}

\* data of a split-into-paths action: { [path.name]: result }
PathsData(params, results) ==
  [k |-> "obj",
   map |-> [j \in 1..Len(params) |->
              [name |-> params[j].name, result |-> results[j]]]]

\* path.filter as declared, before fillSchema
DeclaredFilter == [k |-> "obj", v |-> "filter"]

\* variant: a path whose filter threw gets no entry
PathsSteps_DropThrown(params, results) ==
  LET kept == SelectSeq([j \in 1..Len(params) |-> j],
                        LAMBDA j : "error" \notin DOMAIN results[j])
  IN [n \in 1..Len(kept) |->
        NewPathStep(params[kept[n]], FilledInput, results[kept[n]])]

\* pathsSteps after the for-loop: one entry per declared path, with the
\* filled filter and its result, or with path.filter and
\* { canContinue: false, error } when the evaluation threw
PathsSteps(params, results) ==
  [j \in 1..Len(params) |->
     IF "error" \in DOMAIN results[j]
       THEN NewPathStep(params[j], DeclaredFilter, results[j])
     ELSE NewPathStep(params[j], FilledInput, results[j])]

\* split-into-paths: one filter evaluation per declared path, a throwing one
\* recorded as { canContinue: false, error }, then one paths step
DispatchSplitIntoPaths ==
  /\ OnTop("dispatch", "start")
  /\ IsSplit(Top.action)
  /\ \E results \in [1..Len(Top.action.params) -> PathFilterOutcomes] :
       LET params == Top.action.params
           pathsSteps == PathsSteps(params, results)
           w == Logged(World, "dispatch", Top.actionPath, Void)
           u == update([w EXCEPT !.run =
                  startActionPathsStep(run, Top.action, pathsSteps, now)])
           result == IF u.threw # <<>> THEN Failure(u.threw)
                     ELSE Data(PathsData(params, results))
       IN /\ Commit(Logged(u.w, "result", Top.actionPath, result))
          /\ ret' = IF u.threw # <<>> THEN DispatchCatch(u.threw)
                    ELSE Returned(result)
  /\ stack' = Popped
  /\ now' = now + 1
  /\ UNCHANGED <<lastOp, ops, automation, faults, invocation, prev>>

(***************************************************************************)
(* RunAutomationUseCase.runAction                                          *)
(***************************************************************************)
\* action.error of a recorded step, as a condition
HasError(step) == "error" \in DOMAIN step /\ Truthy(step.error)

\* step.paths.some((path) => path.actions.some((action) => action.error))
HasPathErrors(step) ==
  \E j \in 1..Len(step.paths) :
    \E n \in 1..Len(step.paths[j].actions) :
      HasError(step.paths[j].actions[n])

\* 'canContinue' in data && !data.canContinue ; the data of split-into-paths
\* maps path names to objects, which are truthy whatever the name
FilterSaysStop(data) ==
  /\ "map" \notin DOMAIN data
  /\ HasCanContinue(data)
  /\ ~data.canContinue

Outcome(effect, value, paths) ==
  Only({[w |-> e.w, threw |-> e.threw, value |-> value, paths |-> paths]
        : e \in {effect}})

\* items i..n of the array: each on a clone of the run, persisted with create
RECURSIVE FanOut(_, _, _, _, _)
FanOut(w, actionPath, items, i, t) ==
  IF i > Len(items) THEN Done(w)
  ELSE
    LET newRun == successActionStep(clone(w.run, w.nextId), actionPath,
                                    WithIndex(items[i], i), t).run
    IN Then(create([w EXCEPT !.nextId = @ + 1], newRun),
            LAMBDA v : FanOut(v, actionPath, items, i + 1, t))

\* runAction from the dispatcher's answer up to the call of executePaths
runActionResult(w, action, actionPath, result, t) ==
  LET data == result.data IN
  IF Truthy(result.error)
    THEN Outcome(stop(w, actionPath, result.error, t), FALSE, FALSE)
  ELSE IF action.service = "filter" /\ FilterSaysStop(data)
    THEN Outcome(filter(w, actionPath, data, t), FALSE, FALSE)
  ELSE IF data.k = "arr" THEN
    IF Len(data.items) = 0
      THEN Outcome(filter(w, actionPath, data, t), FALSE, FALSE)
    ELSE
      LET r == successActionStep(w.run, actionPath,
                                 WithIndex(data.items[1], 1), t)
      IN IF r.threw # <<>> THEN Outcome(Failed(w, r.threw), FALSE, FALSE)
         ELSE Outcome(Then(update([w EXCEPT !.run = r.run]),
                           LAMBDA v : FanOut(v, actionPath, data.items, 2, t)),
                      TRUE, FALSE)
  ELSE
    LET r == successActionStep(w.run, actionPath, data, t)
    IN IF r.threw # <<>> THEN Outcome(Failed(w, r.threw), FALSE, FALSE)
       ELSE Outcome(update([w EXCEPT !.run = r.run]),
                    TRUE, IsSplit(action))

PathFailureMessage(msg) ==
  <<"Path failure in multi-step execution: ">> \o msg

\* runAction after executePaths returned (thrown = <<>>) or threw
runActionAfterPaths(w, actionPath, data, thrown, t) ==
  IF thrown # <<>>
    THEN Outcome(stop(w, actionPath, Err(PathFailureMessage(thrown)), t),
                 FALSE, FALSE)
  ELSE
    LET look == getActionOrPathsStep(w.run.steps, actionPath, <<>>) IN
    IF look.kind = "throw" THEN Outcome(Failed(w, look.msg), FALSE, FALSE)
    ELSE IF look.kind = "found" /\ StepAt(w.run.steps, look.loc).type = "paths"
      THEN
        LET step == StepAt(w.run.steps, look.loc) IN
        IF \A j \in 1..Len(step.paths) :
             step.paths[j].output.canContinue = FALSE
          THEN Outcome(filter(w, actionPath, data, t), FALSE, FALSE)
        ELSE IF HasPathErrors(step) THEN
          LET j == FindIndex(step.paths,
                     LAMBDA q : \E n \in 1..Len(q.actions) :
                                  HasError(q.actions[n]))
              n == FindIndex(step.paths[j].actions, HasError)
              failedAction == step.paths[j].actions[n]
          IN Outcome(stop(w, actionPath,
                          Err(PathFailureMessage(failedAction.error.message)),
                          t),
                     FALSE, FALSE)
        ELSE Outcome(Done(w), TRUE, FALSE)
    ELSE Outcome(Done(w), TRUE, FALSE)

ExecutePathsFrame(schema, data, pathName) ==
  [fn |-> "executePaths", schema |-> schema, data |-> data,
   pathName |-> pathName, j |-> 1, hasPathFailure |-> FALSE,
   pathFailureError |-> <<>>, pc |-> "loop"]

\* runAction resumes with the dispatcher's answer
RunActionResult ==
  /\ OnTop("runAction", "result")
  /\ ret.kind = "return"
  /\ \E o \in {runActionResult(World, Top.action, Top.actionPath,
                                 ret.value, now)} :
        IF o.threw # <<>> THEN
          /\ Commit(Logged(o.w, "throw", Top.actionPath, Void))
          /\ stack' = Popped
          /\ ret' = Raised(o.threw)
        ELSE IF o.paths THEN
          /\ Commit(Logged(o.w, "paths", Top.actionPath, ret.value.data))
          /\ stack' = Append(ReplaceTop([Top EXCEPT !.pc = "paths",
                                              !.data = ret.value.data]),
                             ExecutePathsFrame(Top.action, ret.value.data,
                                               Top.pathName))
          /\ ret' = NoRet
        ELSE
          /\ Commit(Logged(o.w, IF o.value THEN "continue" ELSE "halt",
                           Top.actionPath, Void))
          /\ stack' = Popped
          /\ ret' = Returned(Bool(o.value))
  /\ now' = now + 1
  /\ UNCHANGED <<lastOp, ops, automation, faults, invocation, prev>>

\* runAction of a split-into-paths resumes after executePaths
RunActionAfterPaths ==
  /\ OnTop("runAction", "paths")
  /\ ret.kind # "none"
  /\ \E o \in {runActionAfterPaths(World, Top.actionPath, Top.data,
                  IF ret.kind = "throw" THEN ret.msg ELSE <<>>, now)} :
        /\ stack' = Popped
        /\ IF o.threw # <<>> THEN
             /\ Commit(Logged(o.w, "throw", Top.actionPath, Void))
             /\ ret' = Raised(o.threw)
           ELSE
             /\ Commit(Logged(o.w, IF o.value THEN "continue" ELSE "halt",
                              Top.actionPath, Void))
             /\ ret' = Returned(Bool(o.value))
  /\ now' = now + 1
  /\ UNCHANGED <<lastOp, ops, automation, faults, invocation, prev>>

(***************************************************************************)
(* RunAutomationUseCase.executePaths                                       *)
(***************************************************************************)
\* data[path.name]
PathResult(data, name) ==
  LET S == {j \in 1..Len(data.map) : data.map[j].name = name}
  IN IF S = {} THEN Undef
     ELSE data.map[CHOOSE j \in S : \A n \in S : n <= j].result

\* result && typeof result === 'object' && 'canContinue' in result
\*   && result.canContinue === true
CanContinue(result) ==
  Truthy(result) /\ HasCanContinue(result) /\ result.canContinue = TRUE

\* (pathName ? pathName + '.' : '') + schema.name + '.' + path.name
NextPathName(pathName, schema, path) ==
  pathName \o <<schema.name, path.name>>

\* the for-loop: the next declared path is executed or skipped; after the
\* last one the first recorded failure is thrown
ExecutePathsLoop ==
  /\ OnTop("executePaths", "loop")
  /\ ret' = IF Top.j > Len(Top.schema.params) /\ Top.hasPathFailure
                 /\ Top.pathFailureError # <<>>
              THEN Raised(Top.pathFailureError)
            ELSE IF Top.j > Len(Top.schema.params) THEN Returned(Void)
            ELSE NoRet
  /\ stack' =
       IF Top.j > Len(Top.schema.params) THEN Popped
       ELSE LET path == Top.schema.params[Top.j] IN
            IF CanContinue(PathResult(Top.data, path.name))
              THEN Append(ReplaceTop([Top EXCEPT !.pc = "await"]),
                          ExecuteFrame(NextPathName(Top.pathName, Top.schema,
                                                    path)))
            ELSE ReplaceTop([Top EXCEPT !.j = @ + 1])
  /\ UNCHANGED <<run, now, lastOp, ops, automation, faults, stored, updates, created,
                 alerts, nextId, invocation, log, prev>>

\* variant: the first failing path ends executePaths at once
ExecutePathsAwait_FailFast ==
  /\ OnTop("executePaths", "await")
  /\ ret.kind # "none"
  /\ IF ret.kind = "throw"
       THEN /\ stack' = Popped
            /\ ret' = Raised(<<"Path failure: ">> \o ret.msg)
     ELSE /\ stack' = ReplaceTop([Top EXCEPT !.pc = "loop", !.j = @ + 1])
          /\ ret' = NoRet
  /\ UNCHANGED <<run, now, lastOp, ops, automation, faults, stored, updates, created,
                 alerts, nextId, invocation, log, prev>>

\* the path's execute returned or threw: record the failure, go on
ExecutePathsAwait ==
  /\ OnTop("executePaths", "await")
  /\ ret.kind # "none"
  /\ stack' = ReplaceTop(
       IF ret.kind = "throw"
         THEN [Top EXCEPT !.pc = "loop", !.j = @ + 1,
                          !.hasPathFailure = TRUE,
                          !.pathFailureError =
                             IF @ = <<>> THEN <<"Path failure: ">> \o ret.msg
                             ELSE @]
       ELSE [Top EXCEPT !.pc = "loop", !.j = @ + 1])
  /\ ret' = NoRet
  /\ UNCHANGED <<run, now, lastOp, ops, automation, faults, stored, updates, created,
                 alerts, nextId, invocation, log, prev>>

(***************************************************************************)
(* RunAutomationUseCase.execute                                            *)
(***************************************************************************)
IsTopLevel(frame) == frame.pathName = <<>>

\* the catch of execute: a path-scoped call rethrows, the top-level call
\* stops the run on 'execution', persists it and alerts; an Error thrown by
\* these two calls leaves execute
ExecuteCatch(w, msg) ==
  IF IsTopLevel(Top) THEN
    LET r == stopActionStep(w.run, <<"execution">>, Err(msg), now)
        e == Then(update([Logged(w, "catch", <<>>, Void)
                            EXCEPT !.run = r.run]),
                  LAMBDA v : sendAlertEmail(v, AutomationAlert(msg)))
    IN /\ Commit(e.w)
       /\ stack' = Popped
       /\ ret' = IF e.threw # <<>> THEN Raised(e.threw) ELSE NoRet
  ELSE
    /\ Commit(Logged(w, "rethrow", Top.pathName, Void))
    /\ stack' = Popped
    /\ ret' = Raised(msg)

\* entry: the path-scoped call looks its path up
ExecuteStart ==
  /\ OnTop("execute", "start")
  /\ LET w == Logged(World, "execute", Top.pathName, Void) IN
     IF IsTopLevel(Top) THEN
       /\ stack' = ReplaceTop([Top EXCEPT !.pc = "loop",
                                          !.actions = automation.actions])
       /\ ret' = NoRet
       /\ Commit(w)
     ELSE
       LET path == findPath(automation, Top.pathName) IN
       IF path.found THEN
         /\ stack' = ReplaceTop([Top EXCEPT !.pc = "loop",
                                            !.actions = path.actions])
         /\ ret' = NoRet
         /\ Commit(w)
       ELSE ExecuteCatch(w, <<"Path not found">>)
  /\ now' = now + 1
  /\ UNCHANGED <<lastOp, ops, automation, faults, invocation, prev>>

\* a recorded split-into-paths step with an error in one of its paths
MustReExecute(action) ==
  /\ IsSplit(action)
  /\ LET look == getActionOrPathsStep(run.steps, <<action.name>>, <<>>)
     IN /\ look.kind = "found"
        /\ StepAt(run.steps, look.loc).type = "paths"
        /\ HasPathErrors(StepAt(run.steps, look.loc))

\* variant: any executed step is passed over, failed or not
ShouldSkip_Executed(frame, action) ==
  isStepExecuted(run, frame.pathName \o <<action.name>>)

\* whether the for-loop passes over the action: never a split-into-paths
\* with recorded path errors at top level, otherwise a step executed with
\* success
ShouldSkip(frame, action) ==
  LET actionPath == frame.pathName \o <<action.name>> IN
  IF IsTopLevel(frame)
    THEN ~MustReExecute(action) /\ isStepExecutedWithSuccess(run, actionPath)
  ELSE isStepExecutedWithSuccess(run, actionPath)

\* one iteration of the for-loop up to the await of runAction: the action is
\* skipped, or its stale step is removed and the action dispatched
ExecuteLoop ==
  /\ OnTop("execute", "loop")
  /\ Top.i <= Len(Top.actions)
  /\ LET action == Top.actions[Top.i]
         actionPath == Top.pathName \o <<action.name>>
         look == getActionOrPathsStep(run.steps, actionPath, <<>>)
         skip == ShouldSkip(Top, action)
     IN IF look.kind = "throw" THEN ExecuteCatch(World, look.msg)
        ELSE IF skip THEN
          /\ stack' = ReplaceTop([Top EXCEPT !.i = @ + 1])
          /\ ret' = NoRet
          /\ Commit(Logged(World, "skip", actionPath, Void))
        ELSE
          /\ Commit([World EXCEPT !.run = removeStep(run, <<action.name>>, now)])
          /\ stack' = ReplaceTop([Top EXCEPT !.pc = "await"])
                      \o <<RunActionFrame(action, Top.pathName),
                           DispatchFrame(action, actionPath)>>
          /\ ret' = NoRet
  /\ now' = now + 1
  /\ UNCHANGED <<lastOp, ops, automation, faults, invocation, prev>>

\* runAction returned shouldContinue, or threw
ExecuteAwait ==
  /\ OnTop("execute", "await")
  /\ ret.kind # "none"
  /\ IF ret.kind = "throw" THEN ExecuteCatch(World, ret.msg)
     ELSE IF ret.value.b THEN
       /\ stack' = ReplaceTop([Top EXCEPT !.pc = "loop", !.i = @ + 1])
       /\ ret' = NoRet
       /\ Commit(World)
     ELSE IF IsTopLevel(Top) THEN
       \* allActionsSucceeded = false; break
       LET r == IF run.status # "filtered"
                  THEN stopActionStep(run, <<"execution">>,
                         Err(<<"Automation stopped due to action failure">>),
                         now).run
                ELSE run
           u == update([World EXCEPT !.run = r])
       IN IF u.threw # <<>> THEN ExecuteCatch(u.w, u.threw)
          ELSE /\ Commit(u.w)
               /\ stack' = Popped
               /\ ret' = NoRet
     ELSE
       /\ stack' = Popped
       /\ ret' = Returned(Void)
       /\ Commit(World)
  /\ now' = now + 1
  /\ UNCHANGED <<lastOp, ops, automation, faults, invocation, prev>>

\* the loop ran to its end (or there was no action)
ExecuteFinish ==
  /\ OnTop("execute", "loop")
  /\ Top.i > Len(Top.actions)
  /\ IF IsTopLevel(Top) THEN
       LET u == update([World EXCEPT !.run = runSucceed(run)])
       IN IF u.threw # <<>> THEN ExecuteCatch(u.w, u.threw)
          ELSE /\ Commit(u.w)
               /\ stack' = Popped
               /\ ret' = NoRet
     ELSE
       /\ Commit(World)
       /\ stack' = Popped
       /\ ret' = Returned(Void)
  /\ UNCHANGED <<now, lastOp, ops, automation, faults, invocation, prev>>

(***************************************************************************)
(* Callers of the orchestrator                                             *)
(***************************************************************************)
\* the run as run storage gives it back
FromStorage(r) == [r EXCEPT !.steps = JSONSteps(@)]

\* the trigger fired: the new run is played
Play ==
  /\ stack = <<>>
  /\ invocation = 0
  /\ invocation' = 1
  /\ stack' = <<ExecuteFrame(<<>>)>>
  /\ UNCHANGED <<run, now, lastOp, ops, automation, faults, ret, stored, updates,
                 created, alerts, nextId, log, prev>>

\* a stopped or filtered run is replayed: replaying(), then execute on the
\* same run, held in memory or read back from run storage
Replay ==
  /\ stack = <<>>
  /\ invocation >= 1
  /\ invocation < MaxInvocations
  /\ run.status \in {"stopped", "filtered"}
  /\ \E r \in {run, FromStorage(stored[run.id])} :
       run' = replaying(r, now)
  /\ prev' = run
  /\ now' = now + 1
  /\ invocation' = invocation + 1
  /\ stack' = <<ExecuteFrame(<<>>)>>
  /\ UNCHANGED <<lastOp, ops, automation, faults, ret, stored, updates, created,
                 alerts, nextId, log>>

Next ==
  \/ Play
  \/ Replay
  \/ ExecuteStart
  \/ ExecuteLoop
  \/ ExecuteAwait
  \/ ExecuteFinish
  \/ DispatchStart
  \/ DispatchService
  \/ DispatchSplitIntoPaths
  \/ RunActionResult
  \/ RunActionAfterPaths
  \/ ExecutePathsLoop
  \/ ExecutePathsAwait

Spec == Init /\ [][Next]_vars

\* the steps of the orchestrator itself: every await resolves and the code
\* after it runs
OrchestratorStep ==
  \/ ExecuteStart
  \/ ExecuteLoop
  \/ ExecuteAwait
  \/ ExecuteFinish
  \/ DispatchStart
  \/ DispatchService
  \/ DispatchSplitIntoPaths
  \/ RunActionResult
  \/ RunActionAfterPaths
  \/ ExecutePathsLoop
  \/ ExecutePathsAwait

\* an invocation that can take a step eventually takes one
SpecLive == Init /\ [][Next]_vars /\ WF_vars(OrchestratorStep)

(***************************************************************************)
(* The orchestrator with collaborators that throw                          *)
(***************************************************************************)
\* the latest call of run-storage update that may be the one to throw
MaxFaultyUpdate == 5

\* at most one collaborator fails in a behaviour
FaultPlans ==
  {NoFaults, [NoFaults EXCEPT !.create = TRUE], [NoFaults EXCEPT !.alert = TRUE]}
  \cup {[NoFaults EXCEPT !.update = k] : k \in 1..MaxFaultyUpdate}

\* a split-into-paths with one path of one action
Forked ==
  [id |-> 16,
   actions |->
     <<SplitIntoPaths("s",
         <<PathSchema("p", <<IntegrationAction("b", "main")>>)>>)>>]

FaultyAutomations == {FlatAutomation(1), Forked, Unconnected}

InitFaulty ==
  /\ automation \in FaultyAutomations
  /\ run = NewRun(automation.id, 1, 1)
  /\ now = 2
  /\ lastOp = NoOp
  /\ ops = 0
  /\ stack = <<>>
  /\ ret = NoRet
  /\ stored = [id \in {1} |-> NewRun(automation.id, 1, 1)]
  /\ updates = 0
  /\ created = <<>>
  /\ alerts = <<>>
  /\ nextId = 2
  /\ invocation = 0
  /\ log = <<>>
  /\ prev = run
  /\ faults \in FaultPlans

SpecFaulty == InitFaulty /\ [][Next]_vars

(***************************************************************************)
(* Properties of the Run entity (SpecRun)                                  *)
(***************************************************************************)
StatusEdges ==
  {<<"playing", "success", "runSucceed">>,
   <<"playing", "filtered", "filterActionStep">>,
   <<"playing", "stopped", "stopActionStep">>,
   <<"filtered", "stopped", "stopActionStep">>,
   <<"success", "playing", "replaying">>,
   <<"filtered", "playing", "replaying">>,
   <<"stopped", "playing", "replaying">>}

\* C3: the status of a run changes only along playing->success (runSucceed),
\* playing->filtered (filterActionStep), playing->stopped and
\* filtered->stopped (stopActionStep), and back to playing through
\* replaying(); runSucceed changes nothing unless the status is playing and
\* stopActionStep changes neither status nor steps when the status is success.
C3_StatusTransitions ==
  lastOp.op # "none" =>
    /\ run.status # lastOp.before.status =>
         <<lastOp.before.status, run.status, lastOp.op>> \in StatusEdges
    /\ lastOp.op = "runSucceed" /\ lastOp.before.status # "playing" =>
         run = lastOp.before
    /\ lastOp.op = "stopActionStep" /\ lastOp.before.status = "success" =>
         run.status = "success" /\ run.steps = lastOp.before.steps

\* a stop attempt on a step that exists, refused because the run succeeded
C3_Witness ==
  /\ lastOp.op = "stopActionStep"
  /\ lastOp.before.status = "success"
  /\ getActionOrPathsStep(run.steps, lastOp.path, <<>>).kind = "found"

\* C4: filterActionStep called while the status is not playing changes
\* nothing: status, steps (the addressed step's output and finishedAt) and
\* updatedAt stay as they were, and nothing is thrown.
C4_FilterNoOp ==
  lastOp.op = "filterActionStep" /\ lastOp.before.status # "playing" =>
    run = lastOp.before /\ lastOp.threw = <<>>

\* a second filterActionStep, on a run already filtered, addressing an
\* existing unfinished step that the call would otherwise have finished
C4_Witness ==
  /\ lastOp.op = "filterActionStep"
  /\ lastOp.before.status = "filtered"
  /\ LET r == getActionOrPathsStep(run.steps, lastOp.path, <<>>)
     IN r.kind = "found" /\ StepAt(run.steps, r.loc).finishedAt = NoDate

\* C10: steps[0] is the trigger step the run was created with, whatever Run
\* methods were called with whatever path.
C10_TriggerFirst ==
  Len(run.steps) >= 1 /\ run.steps[1] = TriggerStep

\* removeStep has just removed the only step after the trigger
C10_Witness ==
  /\ lastOp.op = "removeStep"
  /\ Len(lastOp.before.steps) = 2
  /\ run.steps = <<TriggerStep>>

(***************************************************************************)
(* Properties of the orchestrator (Spec), stated over the event log        *)
(***************************************************************************)
IsPrefix(s, t) == Len(s) <= Len(t) /\ SubSeq(t, 1, Len(s)) = s

PathsOf(events) == [i \in DOMAIN events |-> events[i].path]

\* the action paths the dispatcher was invoked for in an invocation, in order
Dispatched(inv) ==
  PathsOf(SelectSeq(log, LAMBDA e : e.ev = "dispatch" /\ e.inv = inv))

IsFlat(a) == \A i \in DOMAIN a.actions : ~IsSplit(a.actions[i])

\* the number of steps after the trigger that a run records without error
SucceededCount(r) ==
  Cardinality({i \in 2..Len(r.steps) : ~HasError(r.steps[i])})

\* the output recorded at a path, Absent when there is no such action step
OutputAt(r, path) ==
  LET look == getActionOrPathsStep(r.steps, path, <<>>) IN
  IF look.kind = "found" /\ StepAt(r.steps, look.loc).type = "action"
    THEN StepAt(r.steps, look.loc).output
  ELSE Absent

\* C1: resume law for a flat automation of n actions: when the invocation
\* before a replay left the run stopped with actions 1..k succeeded, the
\* replay invocation invokes the dispatcher only for actions k+1..n, in
\* declared order (all of them when it ends in success), and steps 1..k keep
\* the outputs recorded before the replay.
C1_ResumeLaw ==
  (invocation >= 2 /\ IsFlat(automation) /\ prev.status = "stopped") =>
    LET n == Len(automation.actions)
        k == SucceededCount(prev)
        expected == [i \in 1..(n - k) |-> <<automation.actions[k + i].name>>]
        d == Dispatched(invocation)
    IN /\ IsPrefix(d, expected)
       /\ (stack = <<>> /\ run.status = "success") => d = expected
       /\ \A i \in 1..k :
            /\ Len(run.steps) >= i + 1
            /\ IsNamed(run.steps[i + 1], automation.actions[i].name)
            /\ run.steps[i + 1].output = prev.steps[i + 1].output

\* a replay that kept one step at least and dispatched two actions at least
C1_Witness ==
  /\ invocation >= 2 /\ IsFlat(automation) /\ prev.status = "stopped"
  /\ SucceededCount(prev) >= 1
  /\ stack = <<>> /\ run.status = "success"
  /\ Len(Dispatched(invocation)) >= 2

\* an action step recorded with an output and without error
SucceededAt(r, path) ==
  LET look == getActionOrPathsStep(r.steps, path, <<>>) IN
  /\ look.kind = "found"
  /\ LET step == StepAt(r.steps, look.loc)
     IN step.type = "action" /\ Truthy(step.output) /\ ~HasError(step)

\* C2: a replay invocation dispatches no action whose step the invocation
\* before it recorded as succeeded, an action inside a path of a
\* split-into-paths step included.
C2_NoRedispatch ==
  invocation >= 2 =>
    \A i \in DOMAIN log :
      (log[i].inv = invocation /\ log[i].ev = "dispatch") =>
        ~SucceededAt(prev, log[i].path)

\* C5: in a flat automation, when the dispatcher answers an error with
\* message m for an action, the invocation ends with status stopped,
\* getErrorMessage() gives m, exactly one alert is sent in the invocation, for
\* the path of that action, and no action is dispatched after it.
C5_ErrorStopsRun ==
  (IsFlat(automation) /\ invocation >= 1 /\ stack = <<>>) =>
    \A i \in DOMAIN log :
      (/\ log[i].inv = invocation
       /\ log[i].ev = "result"
       /\ Truthy(log[i].value.error)) =>
        /\ run.status = "stopped"
        /\ getErrorMessage(run) = log[i].value.error.message
        /\ LET sent == SelectSeq(log, LAMBDA e : e.ev = "alert"
                                               /\ e.inv = invocation)
           IN sent # <<>> /\ Len(sent) = 1 /\ sent[1].path = log[i].path
        /\ Last(alerts) = ActionAlert(log[i].path, log[i].value.error.message)
        /\ \A d \in DOMAIN log : d > i => log[d].ev # "dispatch"

\* the latest "paths" event before position h for the same path and
\* invocation, 0 when there is none
PathsEventBefore(h) ==
  LET S == {d \in 1..(h - 1) : /\ log[d].ev = "paths"
                               /\ log[d].path = log[h].path
                               /\ log[d].inv = log[h].inv}
  IN IF S = {} THEN 0 ELSE CHOOSE d \in S : \A e \in S : e <= d

\* the events of positions d+1..h-1 about the paths directly under split
Between(d, h, ev, split) ==
  SelectSeq(SubSeq(log, d + 1, h - 1),
            LAMBDA e : e.ev = ev /\ Len(e.path) = Len(split) + 1
                       /\ SubSeq(e.path, 1, Len(split)) = split)

RecordedPaths(name) ==
  LET S == {i \in 2..Len(run.steps) :
              /\ run.steps[i].type = "paths"
              /\ run.steps[i].schema.name = name}
  IN IF S = {} THEN Absent
     ELSE run.steps[CHOOSE i \in S : \A j \in S : i <= j]

\* an error in a nested action of any path of the paths step
ErrorInPaths(step) ==
  \E j \in DOMAIN step.paths : \E n \in DOMAIN step.paths[j].actions :
    "error" \in DOMAIN step.paths[j].actions[n]
      /\ Truthy(step.paths[j].actions[n].error)

\* C7: when the top-level loop reaches a split-into-paths action that has a
\* recorded paths step: with an error in a nested action of any path the step
\* is removed and the action dispatched again; with no error the action is
\* skipped and the run left as it is.
C7_FailedSplitReExecuted ==
  [][(/\ OnTop("execute", "loop")
      /\ IsTopLevel(Top)
      /\ Top.i <= Len(Top.actions)
      /\ IsSplit(Top.actions[Top.i])
      /\ RecordedPaths(Top.actions[Top.i].name) # Absent) =>
       LET action == Top.actions[Top.i]
           after == stack'[Len(stack')]
       IN IF ErrorInPaths(RecordedPaths(action.name))
            THEN /\ Len(stack') = Len(stack) + 2
                 /\ after = DispatchFrame(action, <<action.name>>)
                 /\ run'.steps = SelectSeq(run.steps,
                                   LAMBDA st : st # RecordedPaths(action.name))
          ELSE /\ stack' = ReplaceTop([Top EXCEPT !.i = @ + 1])
               /\ run' = run]_vars

\* a replay has dispatched a top-level split-into-paths again whose paths
\* step had an error in a path before the replay
C7_Witness ==
  /\ invocation >= 2
  /\ \E i \in DOMAIN log :
       /\ log[i].inv = invocation /\ log[i].ev = "dispatch"
       /\ Len(log[i].path) = 1
       /\ \E j \in 2..Len(prev.steps) :
            /\ prev.steps[j].type = "paths"
            /\ prev.steps[j].schema.name = log[i].path[1]
            /\ ErrorInPaths(prev.steps[j])

\* every declared path's filter output of a split-into-paths result has
\* canContinue = false
AllPathsClosed(result) ==
  /\ Truthy(result.data)
  /\ "map" \in DOMAIN result.data
  /\ \A j \in DOMAIN result.data.map :
       result.data.map[j].result.canContinue = FALSE

\* C8: when the dispatcher's answer for a top-level split-into-paths action
\* has canContinue = false for every declared path, nothing is dispatched
\* afterwards in the invocation and the invocation ends with status filtered.
C8_AllPathsFiltered ==
  (invocation >= 1 /\ stack = <<>>) =>
    \A i \in DOMAIN log :
      (/\ log[i].inv = invocation
       /\ log[i].ev = "result"
       /\ Len(log[i].path) = 1
       /\ AllPathsClosed(log[i].value)) =>
        /\ \A d \in DOMAIN log : d > i => log[d].ev # "dispatch"
        /\ run.status = "filtered"

\* the position of the last answer of the dispatcher in the log
LastResult ==
  LET S == {i \in DOMAIN log : log[i].ev = "result"}
  IN CHOOSE i \in S : \A j \in S : j <= i

DeclaredAt(declared, name) ==
  LET S == {i \in DOMAIN declared : declared[i].name = name}
  IN IF S = {} THEN 0 ELSE CHOOSE i \in S : \A j \in S : i <= j

\* the recorded steps follow the declared order, one step at most for each
\* declared action, and so do the actions inside every recorded path
RECURSIVE InDeclaredOrder(_, _)
InDeclaredOrder(steps, declared) ==
  /\ \A i \in DOMAIN steps : DeclaredAt(declared, steps[i].schema.name) # 0
  /\ \A i, j \in DOMAIN steps :
       i < j => DeclaredAt(declared, steps[i].schema.name)
                  < DeclaredAt(declared, steps[j].schema.name)
  /\ \A i \in DOMAIN steps :
       steps[i].type = "paths" =>
         LET schema == declared[DeclaredAt(declared, steps[i].schema.name)]
         IN /\ IsSplit(schema)
            /\ \A j \in DOMAIN steps[i].paths :
                 LET at == DeclaredAt(schema.params,
                                      steps[i].paths[j].schema.name)
                 IN /\ at # 0
                    /\ InDeclaredOrder(steps[i].paths[j].actions,
                                       schema.params[at].actions)

\* C11: whatever invocations and replays a run went through, its top-level
\* steps after the trigger follow the automation's declared action order with
\* one step at most for each declared action, and the actions recorded inside
\* every path follow that path's declared order in the same way.
C11_DeclaredOrder ==
  InDeclaredOrder(Tail(run.steps), automation.actions)

(***************************************************************************)
(* Properties of the Run entity's predicates and addressing (SpecRun)      *)
(***************************************************************************)
\* the step records no error: an action step has its error unset, a paths
\* step has no action with an error in any path, however deep
RECURSIVE NoRecordedError(_)
NoRecordedError(step) ==
  IF step.type = "paths"
    THEN \A j \in DOMAIN step.paths : \A n \in DOMAIN step.paths[j].actions :
           NoRecordedError(step.paths[j].actions[n])
  ELSE ~("error" \in DOMAIN step /\ HasKey(step.error) /\ IsDefined(step.error))

\* C12: for a path that addresses a step, isStepExecutedWithSuccess(path) is
\* true exactly when that step records no error: an action step has its error
\* unset, a paths step has no errored action in any of its paths at any depth.
C12_SuccessIffNoError ==
  \A path \in OpPaths :
    LET look == getActionOrPathsStep(run.steps, path, <<>>) IN
    look.kind = "found" =>
      (isStepExecutedWithSuccess(run, path)
         <=> NoRecordedError(StepAt(run.steps, look.loc)))

\* a paths step with an errored action in a path, reported as not executed
\* with success, next to an action step without error reported as executed
\* with success
C12_Witness ==
  /\ LET look == getActionOrPathsStep(run.steps, <<"s">>, <<>>) IN
     /\ look.kind = "found"
     /\ StepAt(run.steps, look.loc).type = "paths"
     /\ ~NoRecordedError(StepAt(run.steps, look.loc))
     /\ ~isStepExecutedWithSuccess(run, <<"s">>)
  /\ LET look == getActionOrPathsStep(run.steps, <<"a">>, <<>>) IN
     /\ look.kind = "found"
     /\ isStepExecutedWithSuccess(run, <<"a">>)

\* the step at a location taken out, everything else left as it is
DeleteAt(steps, loc) ==
  IF Len(loc) = 1 THEN RemoveIndex(steps, loc[1])
  ELSE [steps EXCEPT ![loc[1]].paths[loc[2]].actions = RemoveIndex(@, loc[3])]

Addressed(r, path) == getActionOrPathsStep(r.steps, path, <<>>)

RecordsError(step, error) == "error" \in DOMAIN step /\ step.error = error

\* C14: stopActionStep(path, error) called while the status is playing or
\* filtered sets the status to stopped and records the error in the run: on
\* the step at path when there is one, otherwise on a pseudo-step named
\* "execution".
C14_StopRecordsError ==
  (/\ lastOp.op = "stopActionStep"
   /\ lastOp.threw = <<>>
   /\ lastOp.before.status \in {"playing", "filtered"}) =>
    LET was == Addressed(lastOp.before, lastOp.path) IN
    /\ run.status = "stopped"
    /\ IF was.kind = "found"
         THEN RecordsError(StepAt(run.steps, was.loc), Err(<<"boom">>))
       ELSE \E i \in 2..Len(run.steps) :
              /\ run.steps[i].schema.name = "execution"
              /\ RecordsError(run.steps[i], Err(<<"boom">>))

\* the actions of all the paths of a paths step from path j on
RECURSIVE PathActions(_, _)
PathActions(step, j) ==
  IF j > Len(step.paths) THEN <<>>
  ELSE step.paths[j].actions \o PathActions(step, j + 1)

\* the message of the first recorded error of a depth-first, in-order walk,
\* <<>> when the walk meets none
RECURSIVE FirstErrorMessage(_)
FirstErrorMessage(steps) ==
  IF steps = <<>> THEN <<>>
  ELSE
    LET step == Head(steps)
        own == IF step.type = "paths"
                 THEN FirstErrorMessage(PathActions(step, 1))
               ELSE IF "error" \in DOMAIN step /\ HasKey(step.error)
                       /\ IsDefined(step.error)
                 THEN step.error.message
               ELSE <<>>
    IN IF own # <<>> THEN own ELSE FirstErrorMessage(Tail(steps))

\* C15: getErrorMessage() gives the message of the first recorded error of a
\* depth-first, in-order walk of the steps after the trigger, and undefined
\* only when no step of the tree has an error; an errored step that comes
\* after a paths step without error is found.
C15_FirstErrorFound ==
  getErrorMessage(run) = FirstErrorMessage(Tail(run.steps))


(***************************************************************************)
(* C16: what the catch of execute does with an Error                       *)
(***************************************************************************)
\* the top-level execute of the current invocation is over
Finished == stack = <<>> /\ invocation >= 1

\* the catch of the top-level execute was entered in invocation inv
Caught(inv) ==
  \E i \in DOMAIN log : log[i].ev = "catch" /\ log[i].inv = inv

\* sendAlertEmail was called by the catch of the top-level execute
AlertedByCatch(inv) ==
  \E i, j \in DOMAIN log :
    /\ i < j
    /\ log[i].ev = "catch" /\ log[i].inv = inv
    /\ log[j].ev = "alert" /\ log[j].inv = inv /\ log[j].path = <<>>

\* the top-level execute does not raise
C16_NeverEscapes == Finished => ret.kind # "throw"

\* after the catch of the top-level execute the run is stopped and is the
\* one run storage holds, and the alert collaborator was called
C16_StoppedPersistedAlerted ==
  (Finished /\ Caught(invocation)) =>
    /\ run.status = "stopped"
    /\ stored[run.id] = run
    /\ AlertedByCatch(invocation)

\* the step is the catch of a path-scoped execute
Rethrows ==
  /\ Len(log') = Len(log) + 1
  /\ log'[Len(log')].ev = "rethrow"

\* the catch of a path-scoped execute re-throws the Error and leaves the
\* run's status and the alerts alone
C16_PathScopedRethrows ==
  Rethrows =>
    /\ ret'.kind = "throw"
    /\ run'.status = run.status
    /\ alerts' = alerts

\* C16: an Error raised during a top-level invocation never escapes execute:
\* the run is marked stopped, persisted with update and the alert
\* collaborator is called; an Error raised during a path-scoped invocation is
\* re-thrown, and that invocation's catch neither stops the run nor alerts
C16_ErrorsCaughtAtTop ==
  /\ [](C16_NeverEscapes /\ C16_StoppedPersistedAlerted)
  /\ [][C16_PathScopedRethrows]_vars


(***************************************************************************)
(* C17: a failing alert collaborator                                       *)
(***************************************************************************)
\* sendAlertEmail was called in invocation inv
AlertCalled(inv) ==
  \E i \in DOMAIN log : log[i].ev = "alert" /\ log[i].inv = inv

\* C17: when sendAlertEmail throws, the top-level execute still returns
\* without raising, with the run stopped and its final state persisted
C17_AlertFailureTolerated ==
  (Finished /\ faults.alert /\ AlertCalled(invocation)) =>
    /\ ret.kind # "throw"
    /\ run.status = "stopped"
    /\ stored[run.id] = run


(***************************************************************************)
(* C19: the dispatcher returns its errors and calls the service once       *)
(***************************************************************************)
\* the step is the return of the dispatcher to runAction
DispatcherLeaves ==
  /\ stack # <<>> /\ Top.fn = "dispatch"
  /\ stack' = Popped

\* the step is one in which the dispatcher raised an Error of its own: no
\* connection for the account, a step that cannot be recorded, a run that
\* cannot be persisted
DispatcherFails ==
  /\ DispatcherLeaves
  /\ \/ /\ "account" \in DOMAIN Top.action
        /\ Top.action.account \notin AppConnections
     \/ /\ Top.pc = "start" /\ ~IsSplit(Top.action)
        /\ startActionStep(run, Top.actionPath, Top.action, FilledInput,
                           now).threw # <<>>
     \/ /\ updates' = updates + 1
        /\ faults.update = updates'

\* { error: { message } } with a message
IsErrorResult(result) ==
  /\ result.error # Undef
  /\ result.error.message # <<>>

\* no two calls of the service without a call of the dispatcher in between
OneServiceCall(events) ==
  \A i, j \in DOMAIN events :
    (i < j /\ events[i].ev = "service" /\ events[j].ev = "service") =>
      \E n \in DOMAIN events : i < n /\ n < j /\ events[n].ev = "dispatch"

SplitDispatched ==
  /\ stack # <<>> /\ Top.fn = "dispatch" /\ IsSplit(Top.action)
  /\ stack' = Popped

\* the evaluation of the path's filter threw
FilterThrew(result) == "error" \in DOMAIN result

\* the paths step has one entry per declared path, in declared order, each
\* with no action, and with the output data gives for the path: for a
\* throwing filter { canContinue: false, error: <text> }
OneEntryPerPath(step, params, data) ==
  /\ step.type = "paths"
  /\ Len(step.paths) = Len(params)
  /\ Len(data.map) = Len(params)
  /\ \A j \in 1..Len(params) :
       /\ step.paths[j].schema.name = params[j].name
       /\ step.paths[j].actions = <<>>
       /\ data.map[j].name = params[j].name
       /\ step.paths[j].output = data.map[j].result
       /\ step.paths[j].output \in PathFilterOutcomes
       /\ FilterThrew(data.map[j].result) =>
            /\ step.paths[j].output.canContinue = FALSE
            /\ DOMAIN step.paths[j].output = {"k", "canContinue", "error"}

\* C20: when split-into-paths is dispatched and the filter evaluation throws
\* for some declared paths, the recorded paths step still has one entry per
\* declared path, in declared order, each with an empty actions list; a
\* throwing path's output is {canContinue: false, error: <text>} and every
\* other path's output is its own filter result
C20_EveryPathRecorded ==
  [][SplitDispatched =>
       OneEntryPerPath(run'.steps[Len(run'.steps)], Top.action.params,
                       ret'.value.data)]_vars

\* a paths step of two declared paths, the first with a filter that threw
C20_Witness ==
  \E i \in DOMAIN run.steps :
    /\ run.steps[i].type = "paths"
    /\ Len(run.steps[i].paths) = 2
    /\ FilterThrew(run.steps[i].paths[1].output)
    /\ ~FilterThrew(run.steps[i].paths[2].output)


(***************************************************************************)
(* C18: an invocation ended by a filter decision                           *)
(***************************************************************************)
\* an action's result carried an error in invocation inv
ErrorReported(inv) ==
  \E i \in DOMAIN log :
    /\ log[i].ev = "result" /\ log[i].inv = inv
    /\ log[i].value.error # Undef

\* the two action paths name actions of the same list
SameList(p, q) ==
  /\ Len(p) = Len(q)
  /\ SubSeq(p, 1, Len(p) - 1) = SubSeq(q, 1, Len(q) - 1)

\* event i of the log is a filter decision that ended an execute, top-level
\* or path-scoped, of invocation inv, in which no action reported an error
EndedByFilter(i, inv) ==
  /\ log[i].ev = "filter" /\ log[i].inv = inv
  /\ ~ErrorReported(inv)

Keys(m) == {m.entries[i].name : i \in DOMAIN m.entries}

\* m[key], for a key of m
Get(m, key) ==
  m.entries[CHOOSE i \in DOMAIN m.entries : m.entries[i].name = key].value

\* no key twice
IsMapping(m) ==
  \A i, j \in DOMAIN m.entries :
    m.entries[i].name = m.entries[j].name => i = j

StepNames(steps) == {steps[i].schema.name : i \in DOMAIN steps}

\* m has one key per step and no other: an action step's name mapped to its
\* output, {} while the output is unset, a paths step's name mapped to
\* {path name -> the same mapping of the path's actions}
RECURSIVE MapsSteps(_, _)
MapsSteps(m, steps) ==
  /\ IsMapping(m)
  /\ Keys(m) = StepNames(steps)
  /\ \A i \in DOMAIN steps :
       LET step == steps[i]
           v == Get(m, step.schema.name)
       IN IF step.type = "paths" THEN
            /\ IsMapping(v)
            /\ Keys(v) = {step.paths[j].schema.name : j \in DOMAIN step.paths}
            /\ \A j \in DOMAIN step.paths :
                 MapsSteps(Get(v, step.paths[j].schema.name),
                           step.paths[j].actions)
          ELSE v = IF step.output \in {Undef, Absent} THEN EmptyObject
                   ELSE step.output

\* m without its key
Without(m, key) ==
  [m EXCEPT !.entries = SelectSeq(@, LAMBDA e : e.name # key)]

\* C21: getStepsOutput() returns a mapping whose key trigger holds
\* steps[0].output and which has, for every later top-level step, one key: an
\* action step's name mapped to its output (an empty object while the output
\* is unset), a paths step's name mapped to {path name -> the same mapping
\* built from that path's actions}; it has no other keys
C21_StepsOutput ==
  LET m == getStepsOutput(run) IN
  /\ "trigger" \in Keys(m)
  /\ Get(m, "trigger") = run.steps[1].output
  /\ MapsSteps(Without(m, "trigger"), Tail(run.steps))

\* a run with a paths step holding an action in one of its paths, and a step
\* whose output is unset
C21_Witness ==
  /\ \E i \in DOMAIN run.steps :
       /\ run.steps[i].type = "paths"
       /\ \E j \in DOMAIN run.steps[i].paths :
            run.steps[i].paths[j].actions # <<>>
  /\ \E i \in DOMAIN run.steps :
       /\ run.steps[i].type = "action"
       /\ run.steps[i].output = Undef


(***************************************************************************)
(* C22: a split-into-paths inside a branch path                            *)
(***************************************************************************)
\* the dispatcher has just returned the data of a split-into-paths that is an
\* action of a branch path
NestedSplitDispatched ==
  /\ stack # <<>> /\ Top.fn = "runAction" /\ Top.pc = "result"
  /\ IsSplit(Top.action)
  /\ Len(Top.actionPath) > 1
  /\ ret.kind = "return" /\ ret.value.error = Undef

\* a paths step is recorded at the action path
PathsStepAt(steps, actionPath) ==
  LET look == getActionOrPathsStep(steps, actionPath, <<>>)
  IN /\ look.kind = "found"
     /\ StepAt(steps, look.loc).type = "paths"

\* a split-into-paths of a branch path was dispatched in invocation inv
NestedSplitIn(inv) ==
  \E i \in DOMAIN log :
    /\ log[i].ev = "dispatch" /\ log[i].inv = inv
    /\ Len(log[i].path) > 1
    /\ \E j \in DOMAIN log :
         /\ j > i /\ log[j].ev = "result" /\ log[j].path = log[i].path
         /\ log[j].value.error = Undef
         /\ "map" \in DOMAIN log[j].value.data

\* C22: a split-into-paths action that is itself an action of a branch path
\* is executed like a top-level one: its paths step is recorded inside the
\* enclosing path's actions, addressable as parentAction.path.name, and when
\* every nested action succeeds the run ends with status success
C22_NestedSplitExecuted ==
  /\ NestedSplitDispatched => PathsStepAt(run.steps, Top.actionPath)
  /\ (Finished /\ NestedSplitIn(invocation)
        /\ ~ErrorReported(invocation)) => run.status = "success"


(***************************************************************************)
(* C23: a failure on a run that is already filtered                        *)
(***************************************************************************)
\* event j of the log is an action failure reported after the filter
\* decision of event i had made the run filtered, in invocation inv
FailureAfterFilter(i, j, inv) ==
  /\ i < j
  /\ log[i].ev = "filter" /\ log[i].inv = inv
  /\ log[j].ev = "result" /\ log[j].inv = inv
  /\ log[j].value.error # Undef
  /\ \A n \in 1..(j - 1) :
       (log[n].ev = "result" /\ log[n].inv = inv) => log[n].value.error = Undef

\* C23: when an action failure is reported on a run whose status is already
\* filtered within the same invocation, the filtered status is preserved:
\* the run's final status is filtered, not stopped
C23_FilteredPreserved ==
  (Finished /\ \E i, j \in DOMAIN log : FailureAfterFilter(i, j, invocation))
    => run.status = "filtered"


(***************************************************************************)
(* C24: a step whose dispatch was interrupted                              *)
(***************************************************************************)
\* the step recorded at the path has neither output nor error
Interrupted(r, path) ==
  LET look == getActionOrPathsStep(r.steps, path, <<>>) IN
  /\ look.kind = "found"
  /\ LET step == StepAt(r.steps, look.loc) IN
     /\ step.type = "action"
     /\ ~IsDefined(step.output)
     /\ ~IsDefined(step.error)

\* C24: a step recorded by startActionStep that has neither output nor error
\* is not counted as successfully executed, so that the next invocation
\* removes it and dispatches its action again; the run is the one in memory
\* or the one read back from run storage
C24_InterruptedRedone ==
  \A path \in OpPaths :
    \A r \in {run, FromStorage(run)} :
      Interrupted(r, path) => ~isStepExecutedWithSuccess(r, path)


(***************************************************************************)
(* C25: the attempt is persisted before the service is invoked             *)
(***************************************************************************)
\* the run as run storage holds it
Persisted == stored[run.id]

\* a step is recorded at the action path
StepRecordedAt(r, actionPath) ==
  getActionOrPathsStep(r.steps, actionPath, <<>>).kind = "found"

\* the step recorded at the action path holds an output or an error
OutcomeRecordedAt(r, actionPath) ==
  /\ StepRecordedAt(r, actionPath)
  /\ ~Interrupted(r, actionPath)

\* the service of the dispatched action is being awaited
ServiceInFlight == OnTop("dispatch", "service")

\* the service has answered or thrown and runAction holds the result
ServiceAnswered ==
  /\ OnTop("runAction", "result")
  /\ ret.kind = "return"
  /\ Len(log) >= 2
  /\ log[Len(log)].ev = "result"
  /\ log[Len(log) - 1].ev = "service"

\* C25: for every action other than split-into-paths the dispatcher appends
\* the unfinished step and issues a run-storage update before it invokes the
\* service, so whenever a service invocation is in flight or has thrown the
\* persisted run already contains a step for that attempt; the outcome
\* (success, filter or error) is then persisted by a later update
C25_AttemptPersisted ==
  /\ [](ServiceInFlight =>
          /\ ~IsSplit(Top.action)
          /\ Interrupted(Persisted, Top.actionPath)
          /\ Persisted = run)
  /\ [](ServiceAnswered => StepRecordedAt(Persisted, Top.actionPath))
  /\ [][(ServiceAnswered /\ stack' = Popped /\ ret'.kind = "return") =>
          /\ updates' > updates
          /\ OutcomeRecordedAt(stored'[run'.id], Top.actionPath)
          /\ stored'[run'.id] = run']_vars


(***************************************************************************)
(* C26: no dispatch once the run is stopped or filtered                    *)
(***************************************************************************)
\* the dispatcher has been invoked for an action and has not acted yet
DispatcherInvoked == OnTop("dispatch", "start")

\* C26: within one orchestrator invocation the dispatcher is invoked for an
\* action only while the run's status is playing: once the run is stopped or
\* filtered, neither an action of a sibling path nor a later top-level action
\* is dispatched
C26_DispatchOnlyPlaying == DispatcherInvoked => run.status = "playing"


(***************************************************************************)
(* C27: actions after an only-continue-if                                  *)
(***************************************************************************)
IsOnlyContinueIf(action) ==
  action.service = "filter" /\ action.action = "only-continue-if"

\* the action list the action path belongs to
ListOf(actionPath) ==
  IF Len(actionPath) = 1 THEN automation.actions
  ELSE findPath(automation, SubSeq(actionPath, 1, Len(actionPath) - 1)).actions

\* the paths of the only-continue-if actions that precede the action in its
\* list
FiltersBefore(actionPath) ==
  LET list == ListOf(actionPath)
      parent == SubSeq(actionPath, 1, Len(actionPath) - 1)
  IN {parent \o <<list[m].name>> :
        m \in {m \in DOMAIN list :
                 /\ IsOnlyContinueIf(list[m])
                 /\ \E n \in DOMAIN list :
                      m < n /\ list[n].name = actionPath[Len(actionPath)]}}

\* the filter was evaluated before event j, in the same invocation, and
\* allowed to continue
AllowedBefore(filterPath, j) ==
  \E i \in 1..(j - 1) :
    /\ log[i].ev = "result" /\ log[i].inv = log[j].inv
    /\ log[i].path = filterPath
    /\ HasCanContinue(log[i].value.data)
    /\ log[i].value.data.canContinue = TRUE

\* C27: an action that follows an only-continue-if step in the same action
\* list is dispatched only when that filter's decision is canContinue = true,
\* also across replay: the actions after the filtering step are not
\* dispatched unless the filter is evaluated again and allows it
C27_FilterGuardsLaterActions ==
  \A j \in DOMAIN log :
    log[j].ev = "dispatch" =>
      \A filterPath \in FiltersBefore(log[j].path) :
        AllowedBefore(filterPath, j)


(***************************************************************************)
(* C28: a path-scoped execute changes its own path only                    *)
(***************************************************************************)
\* the pathName of the innermost execute on the call stack, <<>> for the
\* top-level one or when there is none
Scope ==
  LET frames == {i \in DOMAIN stack : stack[i].fn = "execute"}
  IN IF frames = {} THEN <<>>
     ELSE stack[CHOOSE i \in frames : \A n \in frames : n <= i].pathName

\* whether the top-level step belongs to the split-into-paths of the name
IsStepOf(step, name) == "name" \in DOMAIN step.schema /\ step.schema.name = name

\* from before to after, every top-level step but the paths step of
\* pathName[1] is the same, and in that paths step every path but
\* pathName[2] is the same
OnlyPathChanged(before, after, pathName) ==
  /\ Len(after) = Len(before)
  /\ \A i \in DOMAIN before :
       IF ~IsStepOf(before[i], pathName[1]) THEN after[i] = before[i]
       ELSE /\ IsStepOf(after[i], pathName[1])
            /\ after[i].type = before[i].type
            /\ before[i].type = "paths" =>
                 /\ Len(after[i].paths) = Len(before[i].paths)
                 /\ \A j \in DOMAIN before[i].paths :
                      before[i].paths[j].schema.name # pathName[2] =>
                        after[i].paths[j] = before[i].paths[j]

\* C28: executing a branch path changes only steps inside that path: a
\* pathName-scoped invocation never removes or modifies a top-level step or a
\* step of another path, also when a top-level action has the same name as an
\* action inside the path
C28_PathFrame ==
  [][Scope # <<>> => OnlyPathChanged(run.steps, run'.steps, Scope)]_vars


(***************************************************************************)
(* C29: alerts per invocation                                              *)
(***************************************************************************)
\* the calls of sendAlertEmail in invocation inv
AlertsOf(inv) == {i \in DOMAIN log : log[i].ev = "alert" /\ log[i].inv = inv}

\* C29: one top-level orchestrator invocation calls sendAlertEmail at most
\* once, also when the failure happens inside a branch path of a
\* split-into-paths action or in several of its paths
C29_OneAlert ==
  \A inv \in 1..invocation : Cardinality(AlertsOf(inv)) <= 1


(***************************************************************************)
(* C30: every invocation ends, with a final and persisted status           *)
(***************************************************************************)
\* the top-level execute has returned: a final status, and the run that was
\* last passed to run-storage update is the run in memory
EndsSettled ==
  Finished =>
    /\ run.status \in {"success", "stopped", "filtered"}
    /\ updates >= 1
    /\ stored[run.id] = run

\* C30: every top-level orchestrator invocation on a playing run of a finite
\* automation terminates, and when it returns the run's status is success,
\* stopped or filtered (never playing) and the last state passed to
\* run-storage update equals the run's final in-memory state
C30_TerminatesSettled ==
  /\ (stack # <<>>) ~> (stack = <<>>)
  /\ []EndsSettled

\* a replay of a branching automation has returned with every action done
C30_Witness ==
  /\ Finished
  /\ invocation >= 2
  /\ automation = Branching
  /\ run.status = "success"

====
